---- MODULE Spec2Model ----
(***************************************************************************)
(* Model of frontend/app/api/ask/route.ts: the POST handler (session,      *)
(* sliding-window rate limiter, body, event stream) and the ask            *)
(* orchestrator (cache replay, evidence gathering, answer generation       *)
(* concurrent with the image backfill, related questions, cache write).    *)
(* Requests are served one after the other; the cache, the limiter, the    *)
(* usage counters and the detached setCache/incSearchCount promises        *)
(* outlive a request.                                                      *)
(*                                                                         *)
(* Two specifications share the actions.  SpecRun is the first request on  *)
(* a fresh server, with every outcome of every collaborator.  Spec is a    *)
(* sequence of requests on a fresh server, with collaborators that answer. *)
(***************************************************************************)
EXTENDS Integers, Sequences, FiniteSets, Bags, TLC

\* ---------------------------------------------------------------- bounds
MaxRequests == 4
MaxTokens == 2
MaxPending == 1

\* ------------------------------------------------------- program constants
LIMIT_TOKENS == 3
IMAGE_LIMIT == 8

\* ------------------------------------------------------------- data values
\* A JavaScript string is a sequence of pieces; NullMsg stands for null.
NullMsg == <<"#null">>
\* chatStream ends a reply with callback(null, true)
FinalMsg == NullMsg
ErrMsg == <<"[Oops~ Some errors seem to have occurred]: ", "E">>
\* the i-th token of a model reply
TokenAt(i) == <<"t">> \o [j \in 1..i |-> "'"]

ALL == "all"
IMAGES == "images"
Sources == {ALL, "science"}

Anonymous == ""
Users == {Anonymous, "u1"}
LOOPBACK == "127.0.0.1"
NoIp == "-"
\* x-forwarded-for header values: absent, or a comma separated list
Headers == {<<>>, <<"ip1">>, <<"ip1", "proxy">>}
IPs == {LOOPBACK, "ip1"}

Queries == {<<"a">>, <<" ", "a", " ">>}

HTTPS == <<"h", "t", "t", "p", "s">>
HTTP == <<"h", "t", "t", "p">>
Url(scheme, i) == scheme \o <<":">> \o [j \in 1..i |-> "/"]
Img(scheme, i) == [image |-> Url(scheme, i)]

Failed == [failed |-> TRUE]
Ok(t, i) == [failed |-> FALSE, texts |-> t, images |-> i]

\* what the per-user vector index can answer
VectorResults ==
    {Failed, Ok(<<>>, <<>>), Ok(<<"v1">>, <<>>), Ok(<<"v1">>, <<Img(HTTPS, 1)>>)}
\* what the web engine can answer for a text category
WebResults ==
    {Failed, Ok(<<>>, <<>>), Ok(<<"w1">>, <<>>), Ok(<<"w1">>, <<Img(HTTP, 2)>>)}
\* what the web engine can answer for the images category
LongList ==
    [i \in 1..(IMAGE_LIMIT + 2) |-> Img(IF i = 2 THEN HTTP ELSE HTTPS, i)]
ImageResults ==
    {Failed, Ok(<<>>, <<>>), Ok(<<>>, <<Img(HTTP, 1)>>),
     Ok(<<>>, <<Img(HTTPS, 1), Img(HTTP, 2), Img(HTTPS, 3)>>),
     Ok(<<>>, LongList)}

\* ------------------------------------------------------------ pure helpers
\* String.prototype.trim
RECURSIVE TrimLeft(_)
TrimLeft(s) ==
    IF s # <<>> /\ Head(s) = " " THEN TrimLeft(Tail(s)) ELSE s
RECURSIVE TrimRight(_)
TrimRight(s) ==
    IF s # <<>> /\ s[Len(s)] = " " THEN TrimRight(SubSeq(s, 1, Len(s) - 1)) ELSE s
Trim(s) == TrimRight(TrimLeft(s))

\* String.prototype.startsWith
StartsWith(s, p) == Len(s) >= Len(p) /\ SubSeq(s, 1, Len(p)) = p

\* Array.prototype.filter on img.image.startsWith('https')
RECURSIVE FilterHttps(_)
FilterHttps(imgs) ==
    IF imgs = <<>> THEN <<>>
    ELSE IF StartsWith(Head(imgs).image, HTTPS)
         THEN <<Head(imgs)>> \o FilterHttps(Tail(imgs))
         ELSE FilterHttps(Tail(imgs))

\* Array.prototype.slice(0, n)
Slice(s, n) == SubSeq(s, 1, IF Len(s) < n THEN Len(s) ELSE n)

\* the .then() of the image backfill search
BackfillNoFilter(imgs) == Slice(imgs, IMAGE_LIMIT)
BackfillImages(imgs) == Slice(FilterHttps(imgs), IMAGE_LIMIT)

\* `${x}` / += on a string: null is rendered as "null"
ToStr(msg) == IF msg = NullMsg THEN <<"null">> ELSE msg

\* (req.headers.get('x-forwarded-for') ?? '127.0.0.1').split(',')[0]
ClientIp(h) == IF h = <<>> THEN LOOPBACK ELSE h[1]

\* JSON.stringify({[key]: value}) as handed to onStream
Event(k, v) == [key |-> k, value |-> v]

\* streamResponse({sources: webs, images, answer, related})
ReplaySwapped(b) ==
    <<Event("sources", b.webs), Event("answer", b.answer),
      Event("images", b.images), Event("related", b.related)>>
ReplayEvents(b) ==
    <<Event("sources", b.webs), Event("images", b.images),
      Event("answer", b.answer), Event("related", b.related)>>

\* streamResponse({sources: texts, images})
EvidenceEvents(t, i) == <<Event("sources", t), Event("images", i)>>

\* if (session) ... else { ratelimit.limit(ip) }
GateAlways(u) == TRUE
NeedsLimit(u) == u = Anonymous

\* Ratelimit.slidingWindow(3, '1 d'): success while the window has room
LimitSuccess(n) == n < LIMIT_TOKENS

\* if (!success) return 429, else fall through to req.json()
GateIgnored(success) == "json"
GateNext(success) == IF success THEN "json" ELSE "end"

\* if (userId && source === SearchCategory.ALL)
MergeAnyCategory(u, s) == u # Anonymous
MergeCond(u, s) == u # Anonymous /\ s = ALL

\* images.length === 0 ? <images search> : Promise.resolve(images)
BackfillAlways(imgs) == TRUE
NeedsBackfill(imgs) == Len(imgs) = 0

\* await Promise.all([llmAnswerPromise, imageFetchPromise]) has resolved
JoinOnImages(l, i) == i = "resolved"
JoinReady(l, i) == l = "done" /\ i = "resolved"

\* ------------------------------------------------------------------ state
VARIABLES
    cache,        \* Cache Store: key -> CachedResult (partial function)
    used,         \* limiter: requests of an IP inside the window
    searchCount,  \* usage counter per user
    bg,           \* bag of detached promises: setCache, incSearchCount
    nreq,         \* requests received
    pc,           \* position of the current request
    userId, ip, query, useCache, source,
    http,         \* HTTP outcome of the current request
    stream,       \* ReadableStream: "none", "open", "closed", "errored"
    events,       \* payloads enqueued on the stream, in order
    closes,       \* calls of onStream(null, true)
    lateEmits,    \* enqueue attempts on a stream no longer open
    limitCalls, limitOk, bodyRead,
    getCacheCalls, hit, cachedResult,
    searchLog, chatCalls, setCacheLog, incCalls,
    vectorResponse, webResponse,
    texts, images, fetchedImages,
    llm, img, rel, \* answer generation, image fetch, related generation
    ntok, llmFailed, relFailed,
    fullAnswer, fullRelated

persistent == <<cache, used, searchCount, bg, nreq>>
reqIn == <<userId, ip, query, useCache, source>>
gate == <<limitCalls, limitOk, bodyRead>>
out == <<http, stream, events, closes, lateEmits>>
calls == <<getCacheCalls, hit, cachedResult, searchLog, chatCalls, setCacheLog,
          incCalls>>
evid == <<vectorResponse, webResponse, texts, images, fetchedImages>>
gen == <<llm, img, rel, ntok, llmFailed, relFailed, fullAnswer, fullRelated>>
vars == <<persistent, pc, reqIn, gate, out, calls, evid, gen>>

NoResponse == [failed |-> TRUE]

Init ==
    /\ cache = <<>>
    /\ used = [i \in IPs |-> 0]
    /\ searchCount = [u \in Users \ {Anonymous} |-> 0]
    /\ bg = EmptyBag
    /\ nreq = 0
    /\ pc = "idle"
    /\ userId = Anonymous /\ ip = LOOPBACK /\ query = <<>>
    /\ useCache = FALSE /\ source = ALL
    /\ http = "none" /\ stream = "none" /\ events = <<>>
    /\ closes = 0 /\ lateEmits = 0
    /\ limitCalls = 0 /\ limitOk = "none" /\ bodyRead = FALSE
    /\ getCacheCalls = 0 /\ hit = FALSE /\ cachedResult = <<>>
    /\ searchLog = <<>>
    /\ chatCalls = 0 /\ setCacheLog = <<>> /\ incCalls = 0
    /\ vectorResponse = NoResponse /\ webResponse = NoResponse
    /\ texts = <<>> /\ images = <<>> /\ fetchedImages = <<>>
    /\ llm = "idle" /\ img = "idle" /\ rel = "idle"
    /\ ntok = 0 /\ llmFailed = FALSE /\ relFailed = FALSE
    /\ fullAnswer = <<>> /\ fullRelated = <<>>


\* ------------------------------------------------------------ POST handler
Quiescent == pc \in {"idle", "end"} /\ llm # "running" /\ img # "running"

\* const session = await auth(); a new request starts with fresh locals
PostAuth(u, h) ==
    /\ Quiescent
    /\ nreq < MaxRequests
    /\ nreq' = nreq + 1
    /\ userId' = u
    /\ ip' = IF NeedsLimit(u) THEN ClientIp(h) ELSE NoIp
    /\ query' = <<>> /\ useCache' = FALSE /\ source' = ALL
    /\ http' = "none" /\ stream' = "none" /\ events' = <<>>
    /\ closes' = 0 /\ lateEmits' = 0
    /\ limitCalls' = 0 /\ limitOk' = "none" /\ bodyRead' = FALSE
    /\ getCacheCalls' = 0 /\ hit' = FALSE /\ cachedResult' = <<>>
    /\ searchLog' = <<>>
    /\ chatCalls' = 0 /\ setCacheLog' = <<>> /\ incCalls' = 0
    /\ vectorResponse' = NoResponse /\ webResponse' = NoResponse
    /\ texts' = <<>> /\ images' = <<>> /\ fetchedImages' = <<>>
    /\ llm' = "idle" /\ img' = "idle" /\ rel' = "idle"
    /\ ntok' = 0 /\ llmFailed' = FALSE /\ relFailed' = FALSE
    /\ fullAnswer' = <<>> /\ fullRelated' = <<>>
    /\ pc' = IF NeedsLimit(u) THEN "limit" ELSE "json"
    /\ UNCHANGED <<cache, used, searchCount, bg>>

\* const { success } = await ratelimit.limit(ip); 429 when denied
PostLimit ==
    /\ pc = "limit"
    /\ LET ok == LimitSuccess(used[ip]) IN
        /\ limitCalls' = limitCalls + 1
        /\ limitOk' = IF ok THEN "ok" ELSE "denied"
        /\ used' = IF ok THEN [used EXCEPT ![ip] = @ + 1] ELSE used
        /\ http' = IF ok THEN http ELSE "429"
        /\ pc' = GateNext(ok)
    /\ UNCHANGED <<cache, searchCount, bg, nreq, reqIn, bodyRead,
                   stream, events, closes, lateEmits, calls, evid, gen>>

\* await req.json() rejects: it is outside the try block
PostJsonThrows ==
    /\ pc = "json"
    /\ bodyRead' = TRUE
    /\ http' = "uncaught"
    /\ pc' = "end"
    /\ UNCHANGED <<persistent, reqIn, limitCalls, limitOk,
                   stream, events, closes, lateEmits, calls, evid, gen>>

\* req.json() succeeds; the ReadableStream is built, start() calls ask
PostJsonOk(q, c, s) ==
    /\ pc = "json"
    /\ bodyRead' = TRUE
    /\ query' = q /\ useCache' = c /\ source' = s
    /\ http' = "200"
    /\ stream' = "open"
    /\ pc' = "ask"
    /\ UNCHANGED <<cache, used, searchCount, bg, nreq, userId, ip,
                   limitCalls, limitOk, events, closes, lateEmits,
                   calls, evid, gen>>

\* the sliding window moves on: the oldest request of an IP leaves it
WindowSlide(i) ==
    /\ used[i] > 0
    /\ used' = [used EXCEPT ![i] = @ - 1]
    /\ UNCHANGED <<cache, searchCount, bg, nreq, pc, reqIn, gate,
                   out, calls, evid, gen>>

\* -------------------------------------------------------- ask: cache check
\* query = query.trim()
LookupKey(q) == Trim(q)

IncTask(u) == [kind |-> "inc", user |-> u, key |-> <<>>, value |-> <<>>]
WriteTask(k, b) == [kind |-> "setCache", user |-> Anonymous, key |-> k,
                    value |-> <<b>>]

\* p.catch(...) without await: the promises stay in flight
Awaited(tasks) == bg
Detached(tasks) == bg (+) SetToBag(tasks)

\* an increment for whoever asked, session or not
FireIncAlways ==
    /\ incCalls' = incCalls + 1
    /\ bg' = Detached({IncTask(userId)})

\* replay that also writes the replayed bundle back
FireIncAndWrite ==
    /\ incCalls' = IF userId # Anonymous THEN incCalls + 1 ELSE incCalls
    /\ bg' = bg (+) SetToBag(
                 (IF userId # Anonymous THEN {IncTask(userId)} ELSE {})
                 \cup {WriteTask(Trim(query), cache[Trim(query)])})

\* if (userId) incSearchCount(userId).catch(...)
FireInc ==
    IF userId # Anonymous
    THEN incCalls' = incCalls + 1 /\ bg' = Detached({IncTask(userId)})
    ELSE incCalls' = incCalls /\ bg' = bg

\* ask rejects: start() rejects and the controller errors the stream
AskRejects ==
    /\ stream' = "errored"
    /\ pc' = "end"

AskNoCache ==
    /\ pc = "ask"
    /\ ~useCache
    /\ pc' = "evidence"
    /\ UNCHANGED <<persistent, reqIn, gate, out, calls, evid, gen>>

AskCacheHit ==
    /\ pc = "ask"
    /\ useCache
    /\ LookupKey(query) \in DOMAIN cache
    /\ query' = Trim(query)
    /\ getCacheCalls' = getCacheCalls + 1
    /\ hit' = TRUE
    /\ cachedResult' = <<cache[LookupKey(query)]>>
    /\ events' = events \o ReplayEvents(cache[LookupKey(query)])
    /\ closes' = closes + 1
    /\ stream' = "closed"
    /\ FireInc
    /\ pc' = "end"
    /\ UNCHANGED <<cache, used, searchCount, nreq, userId, ip, useCache,
                   source, gate, http, lateEmits, searchLog, chatCalls,
                   setCacheLog, evid, gen>>

AskCacheMiss ==
    /\ pc = "ask"
    /\ useCache
    /\ LookupKey(query) \notin DOMAIN cache
    /\ query' = Trim(query)
    /\ getCacheCalls' = getCacheCalls + 1
    /\ pc' = "evidence"
    /\ UNCHANGED <<persistent, userId, ip, useCache, source, gate, out, hit,
                   cachedResult, searchLog, chatCalls, setCacheLog, incCalls, evid, gen>>

\* getCache rejects
AskCacheFail ==
    /\ pc = "ask"
    /\ useCache
    /\ query' = Trim(query)
    /\ getCacheCalls' = getCacheCalls + 1
    /\ AskRejects
    /\ UNCHANGED <<persistent, userId, ip, useCache, source, gate, http,
                   events, closes, lateEmits, hit, cachedResult, searchLog,
                   chatCalls, setCacheLog, incCalls, evid, gen>>

\* -------------------------------------------------- ask: evidence gathering
LogEntry(e, c, ph) == [engine |-> e, category |-> c, phase |-> ph]

\* images = [...images, ...webImages]; the vector response gives texts only
MergeImages(vr, wr) == images \o wr.images

\* texts = [...texts, ...webTexts] after ({ texts } = vectorResponse)
MergeTexts(vr, wr) == vr.texts \o wr.texts

\* both searches are started, then await Promise.all([...])
AskMerge(vr, wr) ==
    /\ pc = "evidence"
    /\ MergeCond(userId, source)
    /\ vectorResponse' = vr /\ webResponse' = wr
    /\ searchLog' = searchLog \o <<LogEntry("vector", "", "merge"),
                                   LogEntry("web", source, "merge")>>
    /\ IF vr.failed \/ wr.failed
       THEN /\ AskRejects
            /\ UNCHANGED <<texts, images>>
       ELSE /\ texts' = MergeTexts(vr, wr)
            /\ images' = MergeImages(vr, wr)
            /\ pc' = "gathered"
            /\ UNCHANGED stream
    /\ UNCHANGED <<persistent, reqIn, gate, http, events, closes, lateEmits,
                   getCacheCalls, hit, cachedResult, chatCalls, setCacheLog, incCalls,
                   fetchedImages, gen>>

AskSkipMerge ==
    /\ pc = "evidence"
    /\ ~MergeCond(userId, source)
    /\ pc' = "gathered"
    /\ UNCHANGED <<persistent, reqIn, gate, out, calls, evid, gen>>

\* streamResponse({sources, images}); getLLMAnswer(...) is called and the
\* image promise is built; ask then awaits Promise.all
StartGeneration(t, i, log) ==
    /\ events' = events \o EvidenceEvents(t, i)
    /\ chatCalls' = chatCalls + 1
    /\ llm' = "running"
    /\ ntok' = 0
    /\ IF NeedsBackfill(i)
       THEN /\ img' = "running"
            /\ searchLog' = log \o <<LogEntry("web", IMAGES, "backfill")>>
            /\ fetchedImages' = <<>>
       ELSE /\ img' = "resolved"
            /\ searchLog' = log
            /\ fetchedImages' = i
    /\ pc' = "concurrent"

\* if (!texts.length) ({ texts, images } = await search(query))
AskFallback(wr) ==
    /\ pc = "gathered"
    /\ Len(texts) = 0
    /\ IF wr.failed
       THEN /\ AskRejects
            /\ searchLog' = searchLog \o <<LogEntry("web", source, "fallback")>>
            /\ UNCHANGED <<texts, images, fetchedImages, events, chatCalls,
                           llm, img, ntok>>
       ELSE /\ texts' = wr.texts
            /\ images' = wr.images
            /\ StartGeneration(wr.texts, wr.images,
                   searchLog \o <<LogEntry("web", source, "fallback")>>)
            /\ UNCHANGED stream
    /\ UNCHANGED <<persistent, reqIn, gate, http, closes, lateEmits,
                   getCacheCalls, hit, cachedResult, setCacheLog, incCalls,
                   vectorResponse, webResponse,
                   rel, llmFailed, relFailed, fullAnswer, fullRelated>>

AskNoFallback ==
    /\ pc = "gathered"
    /\ Len(texts) # 0
    /\ StartGeneration(texts, images, searchLog)
    /\ UNCHANGED <<persistent, reqIn, gate, http, stream, closes, lateEmits,
                   getCacheCalls, hit, cachedResult, setCacheLog, incCalls,
                   vectorResponse, webResponse, texts, images,
                   rel, llmFailed, relFailed, fullAnswer, fullRelated>>

\* ------------------------------------------------------ ask: concurrent phase
\* (msg) => { fullAnswer += msg; onStream?.(JSON.stringify({ answer: msg })) }
\* On a stream that is no longer open controller.enqueue throws.  Thrown
\* inside chatStream, the exception reaches the catch of getLLMAnswer, which
\* calls the callback once more; thrown there, it rejects getLLMAnswer.
OnAnswer(msg, next, inCatch) ==
    IF stream = "open"
    THEN /\ fullAnswer' = fullAnswer \o ToStr(msg)
         /\ events' = events \o <<Event("answer", msg)>>
         /\ llm' = next
         /\ UNCHANGED lateEmits
    ELSE /\ fullAnswer' = IF inCatch THEN fullAnswer \o ToStr(msg)
                          ELSE fullAnswer \o ToStr(msg) \o ToStr(ErrMsg)
         /\ lateEmits' = lateEmits + (IF inCatch THEN 1 ELSE 2)
         /\ llm' = "rejected"
         /\ UNCHANGED events

\* chatStream delivers a token: callback(token, false)
LLMToken ==
    /\ llm = "running"
    /\ ntok < MaxTokens
    /\ ntok' = ntok + 1
    /\ OnAnswer(TokenAt(ntok + 1), "running", FALSE)
    /\ UNCHANGED <<persistent, pc, reqIn, gate, http, stream, closes, calls,
                   evid, img, rel, llmFailed, relFailed, fullRelated>>

\* chatStream completes: callback(null, true), then its promise resolves
LLMDone ==
    /\ llm = "running"
    /\ OnAnswer(FinalMsg, "done", FALSE)
    /\ UNCHANGED <<persistent, pc, reqIn, gate, http, stream, closes, calls,
                   evid, img, rel, ntok, llmFailed, relFailed, fullRelated>>

\* chatStream throws: the catch of getLLMAnswer calls onStream(msg, true)
LLMFail ==
    /\ llm = "running"
    /\ llmFailed' = TRUE
    /\ OnAnswer(ErrMsg, "done", TRUE)
    /\ UNCHANGED <<persistent, pc, reqIn, gate, http, stream, closes, calls,
                   evid, img, rel, ntok, relFailed, fullRelated>>

\* the images search answers: filter on https, slice(0, IMAGE_LIMIT)
ImgResolve(r) ==
    /\ img = "running"
    /\ ~r.failed
    /\ fetchedImages' = BackfillImages(r.images)
    /\ img' = "resolved"
    /\ UNCHANGED <<persistent, pc, reqIn, gate, out, calls,
                   vectorResponse, webResponse, texts, images,
                   llm, rel, ntok, llmFailed, relFailed, fullAnswer,
                   fullRelated>>

\* the images search rejects: Promise.all rejects at once and ask with it,
\* while the answer generation goes on
ImgReject ==
    /\ img = "running"
    /\ img' = "rejected"
    /\ IF pc = "concurrent"
       THEN AskRejects
       ELSE UNCHANGED <<pc, stream>>
    /\ UNCHANGED <<persistent, reqIn, gate, http, events, closes, lateEmits,
                   calls, evid, llm, rel, ntok, llmFailed, relFailed,
                   fullAnswer, fullRelated>>

\* Promise.all resolved: if (!images.length) emit the backfilled images;
\* then getRelatedQuestions(...) is called
AskJoin ==
    /\ pc = "concurrent"
    /\ JoinReady(llm, img)
    /\ IF Len(images) = 0
       THEN /\ images' = fetchedImages
            /\ events' = events \o <<Event("images", fetchedImages)>>
       ELSE UNCHANGED <<images, events>>
    /\ chatCalls' = chatCalls + 1
    /\ rel' = "running"
    /\ ntok' = 0
    /\ pc' = "related"
    /\ UNCHANGED <<persistent, reqIn, gate, http, stream, closes, lateEmits,
                   getCacheCalls, hit, cachedResult, searchLog, setCacheLog, incCalls,
                   vectorResponse, webResponse, texts, fetchedImages,
                   llm, img, llmFailed, relFailed, fullAnswer, fullRelated>>

\* --------------------------------------------------- ask: related questions
\* (msg) => { fullRelated += msg; onStream?.(JSON.stringify({ related: msg })) }
OnRelated(msg) ==
    /\ fullRelated' = fullRelated \o ToStr(msg)
    /\ events' = events \o <<Event("related", msg)>>

RelToken ==
    /\ pc = "related" /\ rel = "running"
    /\ ntok < MaxTokens
    /\ ntok' = ntok + 1
    /\ OnRelated(TokenAt(ntok + 1))
    /\ UNCHANGED <<persistent, pc, reqIn, gate, http, stream, closes,
                   lateEmits, calls, evid, llm, img, rel, llmFailed,
                   relFailed, fullAnswer>>

\* chatStream completes: callback(null, true)
RelDone ==
    /\ pc = "related" /\ rel = "running"
    /\ OnRelated(FinalMsg)
    /\ rel' = "done"
    /\ UNCHANGED <<persistent, pc, reqIn, gate, http, stream, closes,
                   lateEmits, calls, evid, llm, img, ntok, llmFailed,
                   relFailed, fullAnswer>>

\* catch (err) { console.error(...); return [] }: what the catch emits
RelatedCatchReports == <<Event("related", ErrMsg)>>
RelatedCatch == <<>>

\* chatStream throws: getRelatedQuestions logs and returns []
RelFail ==
    /\ pc = "related" /\ rel = "running"
    /\ rel' = "done"
    /\ relFailed' = TRUE
    /\ events' = events \o RelatedCatch
    /\ UNCHANGED <<persistent, pc, reqIn, gate, http, stream, closes,
                   lateEmits, calls, evid, llm, img, ntok, llmFailed,
                   fullAnswer, fullRelated>>

\* ------------------------------------------------------- ask: finalization
Bundle(w, i, a, r) == [webs |-> w, images |-> i, answer |-> a, related |-> r]

\* cachedResult = {...}; incSearchCount; setCache(query, ...); onStream(null, true)
AskFinish ==
    /\ pc = "related" /\ rel = "done"
    /\ LET b == Bundle(texts, images, fullAnswer, fullRelated) IN
        /\ setCacheLog' = setCacheLog \o <<[key |-> query, value |-> b]>>
        /\ IF userId # Anonymous
           THEN /\ incCalls' = incCalls + 1
                /\ bg' = Detached({IncTask(userId), WriteTask(query, b)})
           ELSE /\ incCalls' = incCalls
                /\ bg' = Detached({WriteTask(query, b)})
    /\ closes' = closes + 1
    /\ stream' = "closed"
    /\ pc' = "end"
    /\ UNCHANGED <<cache, used, searchCount, nreq, reqIn, gate, http,
                   events, lateEmits, getCacheCalls, hit, cachedResult, searchLog,
                   chatCalls, evid, gen>>

\* a detached promise settles; a rejection is logged by its .catch
BgSettle(t, ok) ==
    /\ t \in BagToSet(bg)
    /\ bg' = bg (-) SetToBag({t})
    /\ IF ok /\ t.kind = "setCache"
       THEN cache' = [k \in DOMAIN cache \cup {t.key} |->
                         IF k = t.key THEN t.value[1] ELSE cache[k]]
       ELSE UNCHANGED cache
    /\ IF ok /\ t.kind = "inc"
       THEN searchCount' = [searchCount EXCEPT ![t.user] = @ + 1]
       ELSE UNCHANGED searchCount
    /\ UNCHANGED <<used, nreq, pc, reqIn, gate, out, calls, evid, gen>>

\* ----------------------------------------------------------- specifications
\* The first request on a fresh server; every collaborator may answer
\* anything or fail.
NextRun ==
    \/ \E u \in Users, h \in Headers : nreq = 0 /\ PostAuth(u, h)
    \/ PostLimit
    \/ PostJsonThrows
    \/ \E q \in Queries, c \in BOOLEAN, s \in Sources : PostJsonOk(q, c, s)
    \/ \E i \in IPs : Quiescent /\ WindowSlide(i)
    \/ AskNoCache
    \/ AskCacheMiss
    \/ AskCacheFail
    \/ \E vr \in VectorResults, wr \in WebResults : AskMerge(vr, wr)
    \/ AskSkipMerge
    \/ \E wr \in WebResults : AskFallback(wr)
    \/ AskNoFallback
    \/ LLMToken
    \/ LLMDone
    \/ LLMFail
    \/ \E r \in ImageResults : ImgResolve(r)
    \/ ImgReject
    \/ AskJoin
    \/ RelToken
    \/ RelDone
    \/ RelFail
    \/ AskFinish
    \/ \E t \in BagToSet(bg), ok \in BOOLEAN : BgSettle(t, ok)

SpecRun == Init /\ [][NextRun]_vars

\* A sequence of requests from one client address; the searches answer and
\* the model replies with MaxTokens tokens.
SeqHeaders == {<<"ip1", "proxy">>}
SeqVector == {Ok(<<"v1">>, <<Img(HTTPS, 1)>>)}
SeqWeb == {Ok(<<"w1">>, <<>>)}
SeqImages == {Ok(<<>>, <<Img(HTTPS, 1), Img(HTTP, 2), Img(HTTPS, 3)>>)}

Next ==
    \/ \E u \in Users, h \in SeqHeaders :
          BagCardinality(bg) <= MaxPending /\ PostAuth(u, h)
    \/ PostLimit
    \/ PostJsonThrows
    \/ \E q \in Queries, c \in BOOLEAN : PostJsonOk(q, c, ALL)
    \/ \E i \in IPs : Quiescent /\ WindowSlide(i)
    \/ AskNoCache
    \/ AskCacheHit
    \/ AskCacheMiss
    \/ AskCacheFail
    \/ \E vr \in SeqVector, wr \in SeqWeb : AskMerge(vr, wr)
    \/ AskSkipMerge
    \/ \E wr \in SeqWeb : AskFallback(wr)
    \/ AskNoFallback
    \/ LLMToken
    \/ ntok = MaxTokens /\ LLMDone
    \/ \E r \in SeqImages : ImgResolve(r)
    \/ AskJoin
    \/ RelToken
    \/ ntok = MaxTokens /\ RelDone
    \/ AskFinish
    \/ \E t \in BagToSet(bg), ok \in BOOLEAN : BgSettle(t, ok)

Spec == Init /\ [][Next]_vars

\* ----------------------------------------------------------------- claims
Keys(k) == {i \in 1..Len(events) : events[i].key = k}
BackfilledIdx == {j \in Keys("images") : \E k \in Keys("images") : k < j}
Settled == pc = "end" /\ llm # "running" /\ img # "running"
EvidenceEmitted ==
    ~hit /\ Len(events) >= 2 /\ events[1].key = "sources"
         /\ events[2].key = "images"

\* the state of a request served from the cache
C1_ReplayState ==
    hit =>
        /\ Len(cachedResult) = 1
        /\ Len(events) = 4
        /\ events[1].key = "sources" /\ events[1].value = cachedResult[1].webs
        /\ events[2].key = "images" /\ events[2].value = cachedResult[1].images
        /\ events[3].key = "answer" /\ events[3].value = cachedResult[1].answer
        /\ events[4].key = "related" /\ events[4].value = cachedResult[1].related
        /\ stream = "closed" /\ closes = 1 /\ lateEmits = 0
        /\ searchLog = <<>> /\ chatCalls = 0
        /\ llm = "idle" /\ img = "idle" /\ rel = "idle"
\* the lookup step: the entry under the trimmed query is the one replayed
\* (unless getCache itself rejects)
C1_LookupStep ==
    (pc = "ask" /\ pc' # "ask" /\ useCache /\ Trim(query) \in DOMAIN cache)
        => \/ hit' /\ cachedResult' = <<cache[Trim(query)]>>
           \/ stream' = "errored"
\* C1: a request with useCache=true whose trimmed query is in the cache is
\* served from the cache: the stream carries exactly the four events
\* sources, images, answer, related, in this order, each with the whole
\* stored value, then the terminal signal; no search and no model call is
\* made.
C1_CacheReplay == []C1_ReplayState /\ [][C1_LookupStep]_vars
C1_Witness ==
    /\ hit /\ stream = "closed" /\ Len(events) = 4
    /\ Len(events[3].value) > 1 /\ Len(events[2].value) > 0

\* C2: in a cache-miss run the sources event precedes every answer event,
\* every answer event precedes the backfilled images event, and every
\* related event comes after all answer events.
C2_EventOrder ==
    ~hit =>
        /\ \A i \in Keys("answer") : \E j \in Keys("sources") : j < i
        /\ \A i \in Keys("answer") : \A j \in BackfilledIdx : i < j
        /\ \A i \in Keys("related") : \A j \in Keys("answer") : j < i
C2_Witness ==
    /\ stream = "closed" /\ ~hit
    /\ Cardinality(Keys("answer")) >= 2
    /\ BackfilledIdx # {}
    /\ Cardinality(Keys("related")) >= 2

\* C3: every request whose stream was opened gets exactly one terminal
\* signal, as the last thing emitted, once all collaborator calls have
\* returned or failed.
C3_OneTerminalAlwaysLast ==
    /\ closes <= 1
    /\ stream = "closed" => lateEmits = 0
    /\ (http = "200" /\ Settled) => (stream = "closed" /\ closes = 1)

\* C4: when answer generation fails the exception stays inside
\* getLLMAnswer, the error text is emitted as exactly one answer event and
\* the stream still ends with the terminal signal.
C4_AnswerFailureContained ==
    llmFailed =>
        /\ llm # "rejected"
        /\ Cardinality({i \in Keys("answer") : events[i].value = ErrMsg}) = 1
        /\ Settled => stream = "closed"

ZeroEvidenceImages == EvidenceEmitted /\ Len(events[2].value) = 0
BackfillEventOk(j) ==
    /\ \A i \in Keys("answer") : i < j
    /\ Len(events[j].value) <= IMAGE_LIMIT
    /\ \A n \in 1..Len(events[j].value) :
           StartsWith(events[j].value[n].image, HTTPS)
\* C5 as stated: with zero evidence images exactly one images event is
\* emitted in the whole stream, after all answer events, with at most 8
\* items, all https.
C5_SingleImagesEvent ==
    ZeroEvidenceImages =>
        /\ Cardinality(Keys("images")) <= 1
        /\ stream = "closed" =>
               /\ Cardinality(Keys("images")) = 1
               /\ \A j \in Keys("images") : BackfillEventOk(j)

\* C5 amended: with zero evidence images the stream carries an empty images
\* event right after the sources event and before every answer event, and
\* at most one further images event (exactly one when the stream reaches
\* the terminal signal), which comes after all answer events and holds at
\* most 8 items, all with https URLs.
C5_BackfillEvent ==
    ZeroEvidenceImages =>
        /\ \A i \in Keys("answer") : 2 < i
        /\ Cardinality(Keys("images")) <= 2
        /\ stream = "closed" => Cardinality(Keys("images")) = 2
        /\ \A j \in Keys("images") \ {2} : BackfillEventOk(j)
C5_Witness ==
    /\ ZeroEvidenceImages /\ stream = "closed"
    /\ \E j \in Keys("images") \ {2} : Len(events[j].value) = IMAGE_LIMIT
    /\ Cardinality(Keys("answer")) >= 2

\* C6: with at least one evidence image the images-only search is never
\* invoked, no second images event is emitted, and the evidence images are
\* the images of the final bundle.
C6_NoBackfill ==
    (EvidenceEmitted /\ Len(events[2].value) > 0) =>
        /\ \A n \in 1..Len(searchLog) : searchLog[n].category # IMAGES
        /\ img # "running" /\ img # "rejected"
        /\ Keys("images") = {2}
        /\ images = events[2].value
        /\ \A n \in 1..Len(setCacheLog) :
               setCacheLog[n].value.images = events[2].value
        /\ stream = "closed" => Len(setCacheLog) = 1
C6_Witness ==
    /\ EvidenceEmitted /\ Len(events[2].value) > 0
    /\ stream = "closed" /\ Len(setCacheLog) = 1

\* C7: on the merge path both searches are invoked and the evidence is the
\* concatenation vector first, for texts and for images.
C7_MergeVectorFirst ==
    (pc = "gathered" /\ userId # Anonymous /\ source = ALL) =>
        /\ Len(searchLog) = 2
        /\ searchLog[1].engine = "vector" /\ searchLog[2].engine = "web"
        /\ texts = vectorResponse.texts \o webResponse.texts
        /\ images = vectorResponse.images \o webResponse.images

\* the search calls of evidence gathering (merge and fallback)
EvidenceCalls == {n \in 1..Len(searchLog) : searchLog[n].phase # "backfill"}
\* C8: when the merge path is skipped (anonymous user, or a category other
\* than ALL) evidence gathering makes exactly one search call, a web search
\* with the requested category, and the vector search is never invoked.
C8_SingleWebSearch ==
    (http = "200" /\ (userId = Anonymous \/ source # ALL)) =>
        /\ \A n \in 1..Len(searchLog) : searchLog[n].engine = "web"
        /\ Cardinality(EvidenceCalls) <= 1
        /\ \A n \in EvidenceCalls : n = 1 /\ searchLog[n].category = source
        /\ (pc \in {"concurrent", "related"} \/ EvidenceEmitted)
               => Cardinality(EvidenceCalls) = 1
C8_Witness ==
    /\ stream = "closed" /\ ~hit /\ userId # Anonymous /\ source # ALL
    /\ Len(searchLog) = 2

\* the state of a denied request
C9_DeniedState ==
    limitOk = "denied" =>
        /\ userId = Anonymous
        /\ http = "429" /\ stream = "none" /\ pc = "end"
        /\ ~bodyRead /\ events = <<>> /\ closes = 0
        /\ getCacheCalls = 0 /\ setCacheLog = <<>> /\ searchLog = <<>>
        /\ chatCalls = 0 /\ incCalls = 0
        /\ llm = "idle" /\ img = "idle" /\ rel = "idle"
\* the limiter denies exactly when the window is full, and changes nothing
C9_LimitStep ==
    (pc = "limit" /\ pc' # "limit") =>
        /\ (limitOk' = "denied") <=> (used[ip] >= LIMIT_TOKENS)
        /\ limitOk' = "denied" => UNCHANGED <<cache, used, searchCount, bg>>
\* C9: an anonymous request the limiter denies (the window of its IP holds
\* 3 requests already) is answered 429; no stream is opened, the body is not
\* read and ask is not invoked: no cache read or write, no search, no model
\* call, no usage increment.
C9_DeniedNoAsk == []C9_DeniedState /\ [][C9_LimitStep]_vars
C9_Witness == limitOk = "denied" /\ nreq = LIMIT_TOKENS + 1 /\ http = "429"

\* limiter calls per request
C10_GateState ==
    /\ limitCalls <= 1
    /\ (userId = Anonymous /\ pc \notin {"idle", "limit"}) => limitCalls = 1
    /\ (userId = Anonymous /\ bodyRead) => limitOk = "ok"
    /\ userId # Anonymous =>
           limitCalls = 0 /\ limitOk = "none" /\ http # "429"
\* quota is consumed only by the limit step of an anonymous request
C10_QuotaStep ==
    \A i \in IPs :
        used'[i] > used[i] =>
            /\ pc = "limit" /\ userId = Anonymous /\ i = ip
            /\ used'[i] = used[i] + 1
\* C10: the limiter is consulted exactly once for every anonymous request,
\* before the body is read, and never for an authenticated request, which
\* is never answered 429 and never consumes quota.
C10_GateOnlyAnonymous == []C10_GateState /\ [][C10_QuotaStep]_vars
C10_Witness ==
    /\ userId # Anonymous /\ http = "200" /\ stream = "closed"
    /\ used["ip1"] = LIMIT_TOKENS

\* does s occur as a contiguous part of t
Contains(t, s) ==
    \E i \in 0..(Len(t) - Len(s)) : SubSeq(t, i + 1, i + Len(s)) = s
\* C11: a bundle is written to the cache only by a run whose evidence
\* gathering, answer generation and related generation all succeeded: no
\* write is issued by a run in which one of them failed, and no written
\* answer carries the error text.
C11_WriteOnlyAfterSuccess ==
    /\ (llmFailed \/ relFailed \/ stream = "errored") => setCacheLog = <<>>
    /\ \A n \in 1..Len(setCacheLog) :
           ~Contains(setCacheLog[n].value.answer, ErrMsg)

\* the cache writes in flight
WritesOf(b) == [t \in {x \in BagToSet(b) : x.kind = "setCache"} |-> b[t]]
C12_ReplayState == hit => setCacheLog = <<>>
C12_ReplayStep ==
    (hit' /\ ~hit) =>
        /\ cache' = cache
        /\ setCacheLog' = setCacheLog
        /\ WritesOf(bg') = WritesOf(bg)
\* C12: a request served from the cache never writes the cache: setCache is
\* not called, no cache write is left in flight by it and the cache holds
\* after the replay what it held before.
C12_ReplayNoWrite == []C12_ReplayState /\ [][C12_ReplayStep]_vars
C12_Witness ==
    /\ hit /\ stream = "closed" /\ userId # Anonymous
    /\ IncTask(userId) \in BagToSet(bg)
    /\ WritesOf(bg) = <<>>

\* C13: every cache write uses the trimmed query as its key, whether the
\* request had useCache true or false, so every stored bundle is under a key
\* that a later lookup of the same query text computes.
C13_TrimmedWriteKey ==
    /\ \A n \in 1..Len(setCacheLog) :
           setCacheLog[n].key = Trim(setCacheLog[n].key)
    /\ \A k \in DOMAIN cache : k = LookupKey(k)

\* the calls a step issues
IssuedInc == incCalls' - incCalls
IssuedWrites == Len(setCacheLog') - Len(setCacheLog)
C14_TerminalStep ==
    closes' = closes + 1 =>
        /\ stream' = "closed"
        /\ BagCardinality(bg') = BagCardinality(bg) + IssuedInc + IssuedWrites
        /\ IssuedInc = 1 => IncTask(userId) \in BagToSet(bg')
        /\ IssuedWrites = 1 =>
               WriteTask(setCacheLog'[1].key, setCacheLog'[1].value)
                   \in BagToSet(bg')
C14_SettleStep ==
    BagCardinality(bg') < BagCardinality(bg) =>
        /\ BagCardinality(bg') = BagCardinality(bg) - 1
        /\ UNCHANGED <<pc, out, calls>>
C14_NoRetry == incCalls <= 1 /\ Len(setCacheLog) <= 1
\* C14: the cache write and the usage increment are fire-and-forget: the
\* terminal signal is emitted while they are still in flight, their
\* settling, with success or with failure, changes nothing the client
\* receives, and none of them is issued a second time.
C14_FireAndForget ==
    []C14_NoRetry /\ [][C14_TerminalStep /\ C14_SettleStep]_vars
C14_Witness ==
    /\ stream = "closed" /\ ~hit /\ userId # Anonymous
    /\ IncTask(userId) \in BagToSet(bg)
    /\ WritesOf(bg) # <<>>
    /\ nreq >= 2

\* increments issued by the current request
C15_IncState ==
    /\ incCalls <= 1
    /\ incCalls = 1 <=> (userId # Anonymous /\ stream = "closed")
    /\ \A t \in BagToSet(bg) : t.kind = "inc" => t.user # Anonymous
    /\ \A u \in DOMAIN searchCount :
           searchCount[u] + CopiesIn(IncTask(u), bg) <= nreq
\* the counter moves only when an issued increment lands, by one
C15_CountStep ==
    \A u \in DOMAIN searchCount :
        searchCount'[u] # searchCount[u] =>
            /\ searchCount'[u] = searchCount[u] + 1
            /\ CopiesIn(IncTask(u), bg') = CopiesIn(IncTask(u), bg) - 1
\* C15: a request issues one usage increment for its user exactly when it
\* completes, served from the cache or computed live; a request that did not
\* reach the terminal signal and an anonymous request issue none, no request
\* issues two, and the counter moves by one per landed increment.
C15_OneIncrementPerCompletion ==
    []C15_IncState /\ [][C15_CountStep]_vars
C15_Witness ==
    /\ userId # Anonymous /\ hit /\ stream = "closed" /\ incCalls = 1
    /\ searchCount[userId] = 2

C16_SwallowedState ==
    relFailed =>
        /\ stream # "errored"
        /\ \A i \in Keys("related") : ~Contains(events[i].value, ErrMsg)
        /\ pc = "end" => (stream = "closed" /\ closes = 1)
C16_AfterFailureStep == relFailed' => events' = events
\* C16: a failure of related-question generation is swallowed: ask does not
\* fail, the failure and everything after it add no event to the stream
\* (no error message, no further related event) and the request still ends
\* with the terminal signal.
C16_RelatedFailureSwallowed ==
    []C16_SwallowedState /\ [][C16_AfterFailureStep]_vars
C16_Witness ==
    /\ relFailed /\ stream = "closed" /\ closes = 1
    /\ Cardinality(Keys("related")) = 1

\* C17: a failure before the stream is opened (a body that cannot be
\* parsed) is answered with HTTP 500 and an error body, never left as an
\* uncaught exception of the handler, and once the stream is open the HTTP
\* outcome stays 200 whatever fails later.
C17_ErrorByPhase ==
    /\ http # "uncaught"
    /\ (pc = "end" /\ bodyRead /\ stream = "none") => http = "500"
    /\ stream # "none" => http = "200"

\* the text a client assembles from the events of one key
RECURSIVE JoinValues(_, _)
JoinValues(evs, k) ==
    IF evs = <<>> THEN <<>>
    ELSE (IF Head(evs).key = k THEN Head(evs).value ELSE <<>>)
             \o JoinValues(Tail(evs), k)
\* C18: in a completed live run whose two generations end with the final
\* callback (null, true), that callback adds nothing to a buffer and emits
\* no event, and the bundle written to the cache holds as answer and as
\* related exactly the tokens streamed, in order, so that a replay delivers
\* what the live run delivered.
C18_BundleIsTokensStreamed ==
    (stream = "closed" /\ ~hit /\ ~llmFailed /\ ~relFailed) =>
        /\ \A i \in Keys("answer") \cup Keys("related") :
               events[i].value # NullMsg
        /\ setCacheLog[1].value.answer = JoinValues(events, "answer")
        /\ setCacheLog[1].value.related = JoinValues(events, "related")
        /\ setCacheLog[1].value.webs = events[1].value

\* C19: once a request has ended, by the terminal signal or by ask failing
\* on the image search, the answer generation hands no further event to
\* the stream: nothing is enqueued on a closed or errored stream, and no
\* enqueue fails inside the answer callback.
C19_NoEmitAfterEnd ==
    /\ lateEmits = 0
    /\ llm # "rejected"

====
